---- MODULE Spec2Model ----
(***************************************************************************)
(* Model of app.py: the Hair Analyzer + Hairstyle Swap HTTP service.       *)
(* The process loads its configuration, builds the GridFS handle and the   *)
(* three remote clients, and then serves requests.  A request is followed  *)
(* statement by statement through its handler; every GridFS operation and  *)
(* every remote call it makes is appended to log.                          *)
(***************************************************************************)
EXTENDS Integers, Sequences, FiniteSets, TLC

\* ---------------------------------------------------------------- bounds
MaxBlobs == 2            \* blobs the store may hold in the model

\* ------------------------------------------------------- program constants
ObjectIdHexLen == 24     \* characters of a textual ObjectId (12 bytes)
HF_ANALYZE_SPACE == "LogicGoInfotechSpaces/hairanalyzer"
HF_HAIRCUT_SPACE == "LogicGoInfotechSpaces/haircutidentifier"
HF_HAIR_SWAP_SPACE == "AIRI-Institute/HairFastGAN"

\* ------------------------------------------------------------ environment
Unset == [set |-> FALSE, val |-> ""]
EnvVal(s) == [set |-> TRUE, val |-> s]
\* os.getenv: None when the variable is absent, else its (possibly empty) text
MongoEnvValues == {Unset, EnvVal(""), EnvVal("mongodb://db")}
KeyEnvValues == {Unset, EnvVal(""), EnvVal("k1")}
\* variant: a guard written as "is None", which lets an empty value through
TruthyNotNone(v) == v.set
\* Python truthiness of an Optional[str]
Truthy(v) == v.set /\ v.val # ""

\* presented credentials: no Authorization header at all, or a bearer string
NoHeader == [present |-> FALSE, credentials |-> ""]
Bearer(s) == [present |-> TRUE, credentials |-> s]
Creds == {NoHeader, Bearer("k1"), Bearer("K1"), Bearer("")}

\* ------------------------------------------------------------- ObjectId
HexDigits == <<"0","1","2","3","4","5","6","7","8","9","a","b","c","d","e","f">>
UpperDigits == <<"0","1","2","3","4","5","6","7","8","9","A","B","C","D","E","F">>
IsHexChar(c) == \E i \in 1..16 : HexDigits[i] = c \/ UpperDigits[i] = c
HexVal(c) == (CHOOSE i \in 1..16 : HexDigits[i] = c \/ UpperDigits[i] = c) - 1

\* bson.ObjectId(str): a 24-character hexadecimal text, either case
ObjectIdValid(s) == Len(s) = ObjectIdHexLen /\ \A i \in 1..Len(s) : IsHexChar(s[i])
ObjectIdParse(s) ==
  [i \in 1..(ObjectIdHexLen \div 2) |-> 16 * HexVal(s[2*i - 1]) + HexVal(s[2*i])]
\* str(ObjectId): lower-case hexadecimal of the 12 bytes
ObjectIdStr(oid) ==
  [i \in 1..(2 * Len(oid)) |->
     IF i % 2 = 1 THEN HexDigits[(oid[(i + 1) \div 2] \div 16) + 1]
                  ELSE HexDigits[(oid[i \div 2] % 16) + 1]]

\* identifiers GridFS may generate (unique per put)
GenOid(k) == [i \in 1..(ObjectIdHexLen \div 2) |-> IF i = 1 THEN 101 ELSE (k * 171) % 256]
OidPool == {GenOid(k) : k \in 1..(MaxBlobs + 1)}

UpperCase(s) ==
  [i \in 1..Len(s) |-> IF IsHexChar(s[i]) THEN UpperDigits[HexVal(s[i]) + 1] ELSE s[i]]
\* path parameters a client may send
NotAValidId == <<"n","o","t","-","a","-","v","a","l","i","d","-","i","d">>
TooShortId == SubSeq(ObjectIdStr(GenOid(1)), 1, ObjectIdHexLen - 1)
NonHexId == [ObjectIdStr(GenOid(1)) EXCEPT ![ObjectIdHexLen] = "g"]
MalformedIds == {NotAValidId, TooShortId, NonHexId}
IdStrings == {ObjectIdStr(o) : o \in OidPool} \cup {UpperCase(ObjectIdStr(GenOid(1)))}
             \cup MalformedIds

\* ------------------------------------------------------------- payloads
Payloads == {<<1, 2, 3>>, <<255>>}
Filenames == {"a.jpg"}
ContentTypes == {"image/jpeg"}
Files == [data : Payloads, filename : Filenames, content_type : ContentTypes]
TmpNames == {"/tmp/tmp1.jpg", "/tmp/tmp2.jpg"}
Msgs == {"e1", "e2"}

\* --------------------------------------------------------- remote results
\* a gradio result is either the raw value or a dict wrapping it
Raw(p) == [isdict |-> FALSE, str |-> p]
Wrapped(p) == [isdict |-> TRUE, dict |-> [value |-> p]]
NoValueKey(p) == [isdict |-> TRUE, dict |-> [path |-> p]]
OutPaths == {"/gradio/a.png", "/gradio/b.png"}
PreResults == {Raw(p) : p \in OutPaths} \cup {Wrapped(p) : p \in OutPaths}
              \cup {NoValueKey("/gradio/a.png")}
AnalyzeResults == {<<"curly", "oval", "female">>, <<"curly", "oval">>}
HaircutResults == {"bob"}
SwapResults == {<<Raw("/gradio/out.png"), "done">>, <<Wrapped("/gradio/out.png"), "done">>,
                <<Raw("/gradio/out.png")>>, <<NoValueKey("/gradio/out.png"), "done">>, <<>>}
ResultBytes == {<<77>>, <<77, 97, 110, 33>>}

\* x["value"] if isinstance(x, dict) else x; KeyError when the key is missing
HasValue(x) == ~x.isdict \/ "value" \in DOMAIN x.dict
ValueOf(x) == IF x.isdict THEN x.dict["value"] ELSE x.str

\* base64.b64encode(...).decode("utf-8")
B64Alphabet ==
  <<"A","B","C","D","E","F","G","H","I","J","K","L","M","N","O","P",
   "Q","R","S","T","U","V","W","X","Y","Z","a","b","c","d","e","f",
   "g","h","i","j","k","l","m","n","o","p","q","r","s","t","u","v",
   "w","x","y","z","0","1","2","3","4","5","6","7","8","9","+","/">>
B64Char(n) == B64Alphabet[n + 1]
RECURSIVE b64encode(_)
b64encode(s) ==
  IF Len(s) = 0 THEN <<>>
  ELSE IF Len(s) = 1 THEN
    <<B64Char(s[1] \div 4), B64Char((s[1] % 4) * 16), "=", "=">>
  ELSE IF Len(s) = 2 THEN
    <<B64Char(s[1] \div 4), B64Char((s[1] % 4) * 16 + s[2] \div 16),
      B64Char((s[2] % 16) * 4), "=">>
  ELSE
    <<B64Char(s[1] \div 4), B64Char((s[1] % 4) * 16 + s[2] \div 16),
      B64Char((s[2] % 16) * 4 + s[3] \div 64), B64Char(s[3] % 64)>>
    \o b64encode(SubSeq(s, 4, Len(s)))

VARIABLES env, proc, BEARER_TOKEN, mongo_client, hf_clients,
          fs, tmpdir, req, pc, loc, log, resp, issued

vars == <<env, proc, BEARER_TOKEN, mongo_client, hf_clients,
          fs, tmpdir, req, pc, loc, log, resp, issued>>

NoReq == [op |-> "none"]
NoLocals == [x \in {} |-> 0]
\* Python assignment name = v in the handler's frame
Assign(l, name, v) == [k \in DOMAIN l \cup {name} |-> IF k = name THEN v ELSE l[k]]

Init ==
  /\ env \in [MONGODB_URL : MongoEnvValues, API_KEY : KeyEnvValues]
  /\ proc = "loading"
  /\ BEARER_TOKEN = Unset
  /\ mongo_client = FALSE
  /\ hf_clients = {}
  /\ fs = [o \in {} |-> 0]
  /\ tmpdir = [n \in {} |-> 0]
  /\ req = NoReq
  /\ pc = "idle"
  /\ loc = NoLocals
  /\ log = <<>>
  /\ resp = <<>>
  /\ issued = [s \in {} |-> 0]

\* ------------------------------------------------------------- start-up
\* lines 16-21: read the environment, refuse to start when a value is missing
load_config ==
  /\ proc = "loading"
  /\ BEARER_TOKEN' = env.API_KEY
  /\ proc' = IF ~Truthy(env.MONGODB_URL) \/ ~Truthy(env.API_KEY)
             THEN "refused" ELSE "setup"
  /\ UNCHANGED <<env, mongo_client, hf_clients, fs, tmpdir, req, pc, loc, log, resp, issued>>

\* lines 26-42: MongoClient, GridFS, FastAPI app and the three gradio clients;
\* a gradio Client connects to its space when constructed and may raise
setup_clients ==
  /\ proc = "setup"
  /\ \E built \in {<<>>, <<HF_ANALYZE_SPACE>>, <<HF_ANALYZE_SPACE, HF_HAIRCUT_SPACE>>,
                   <<HF_ANALYZE_SPACE, HF_HAIRCUT_SPACE, HF_HAIR_SWAP_SPACE>>} :
       /\ mongo_client' = TRUE
       /\ hf_clients' = {built[i] : i \in 1..Len(built)}
       /\ proc' = IF Len(built) = 3 THEN "serving" ELSE "crashed"
  /\ UNCHANGED <<env, BEARER_TOKEN, fs, tmpdir, req, pc, loc, log, resp, issued>>

\* --------------------------------------------------------------- requests
Idle == proc = "serving" /\ pc = "idle"

Receive(r, first) ==
  /\ Idle
  /\ req' = r
  /\ pc' = first
  /\ loc' = NoLocals
  /\ log' = <<>>
  /\ resp' = <<>>
  /\ UNCHANGED <<env, proc, BEARER_TOKEN, mongo_client, hf_clients, fs, tmpdir, issued>>

recv_upload ==
  \E c \in Creds, f \in Files :
    /\ Cardinality(DOMAIN fs) < MaxBlobs
    /\ Receive([op |-> "upload", cred |-> c, file |-> f], "auth")

recv_reference ==
  \E c \in Creds, f \in Files :
    /\ Cardinality(DOMAIN fs) < MaxBlobs
    /\ Receive([op |-> "reference", cred |-> c, file |-> f], "auth")

recv_analyze ==
  \E c \in Creds, i \in IdStrings :
    Receive([op |-> "analyze", cred |-> c, image_id |-> i], "auth")

recv_swap ==
  \E c \in Creds, s \in IdStrings, r \in IdStrings :
    Receive([op |-> "swap", cred |-> c, source_id |-> s, ref_id |-> r], "auth")

\* variant: the route declared with Depends(check_auth)
recv_health_gated ==
  \E c \in Creds : Receive([op |-> "health", cred |-> c], "auth")

recv_health ==
  \E c \in Creds : Receive([op |-> "health", cred |-> c], "health")

\* the response is sent and the handler's frame is discarded
send_response ==
  /\ pc = "done"
  /\ pc' = "idle"
  /\ req' = NoReq
  /\ loc' = NoLocals
  /\ log' = <<>>
  /\ resp' = <<>>
  /\ UNCHANGED <<env, proc, BEARER_TOKEN, mongo_client, hf_clients, fs, tmpdir, issued>>

Respond(status, body) == Append(resp, [status |-> status, body |-> body])
\* one storage, file or remote operation of the request and how it ended
Returned(kind, api, args, result) ==
  [kind |-> kind, api |-> api, args |-> args, ok |-> TRUE, msg |-> "", result |-> result]
Raised(kind, api, args, msg) ==
  [kind |-> kind, api |-> api, args |-> args, ok |-> FALSE, msg |-> msg, result |-> <<>>]

\* HTTPBearer() rejects a request without a bearer header before check_auth
\* runs: 403 in the FastAPI releases of this code, 401 in later ones
security_missing ==
  /\ pc = "auth"
  /\ ~req.cred.present
  /\ \E st \in {401, 403} : resp' = Respond(st, [detail |-> <<"", "Not authenticated">>])
  /\ pc' = "done"
  /\ UNCHANGED <<env, proc, BEARER_TOKEN, mongo_client, hf_clients, fs, tmpdir, req, loc, log, issued>>

\* variant: a guard that lets an empty credential through
AuthFailsUnlessEmpty(credentials) == credentials # "" /\ credentials # BEARER_TOKEN.val
AuthFails(credentials) == credentials # BEARER_TOKEN.val

check_auth ==
  /\ pc = "auth"
  /\ req.cred.present
  /\ IF AuthFails(req.cred.credentials)
     THEN /\ resp' = Respond(403, [detail |-> <<"", "Invalid token">>])
          /\ pc' = "done"
     ELSE /\ resp' = resp
          /\ pc' = req.op
  /\ UNCHANGED <<env, proc, BEARER_TOKEN, mongo_client, hf_clients, fs, tmpdir, req, loc, log, issued>>

\* the with-blocks' exit: NamedTemporaryFile deletes its file when closed
OpenTmps == {loc[k] : k \in {"tmp", "src_tmp", "ref_tmp"} \cap DOMAIN loc}
\* variant: NamedTemporaryFile(delete=False)
CloseTmpsKeep(dir, names) == dir
CloseTmps(dir, names) == [n \in DOMAIN dir \ names |-> dir[n]]

\* variant: the handler answers with the prefix only, dropping str(e)
RaiseGeneric(prefix, msg) ==
  /\ tmpdir' = CloseTmps(tmpdir, OpenTmps)
  /\ resp' = Respond(500, [detail |-> <<prefix, "">>])
  /\ pc' = "done"

\* except Exception as e: raise HTTPException(500, f"<prefix>{e}")
Raise(prefix, msg) ==
  /\ tmpdir' = CloseTmps(tmpdir, OpenTmps)
  /\ resp' = Respond(500, [detail |-> <<prefix, msg>>])
  /\ pc' = "done"

\* variant: put under a fixed _id, replacing what is stored there
GridPutFixedId(store, oid, f) ==
  [o \in DOMAIN store \cup {GenOid(1)} |->
     IF o = GenOid(1)
     THEN [data |-> f.data, filename |-> f.filename, contentType |-> f.content_type]
     ELSE store[o]]

\* fs.put(file_bytes, filename=..., contentType=...)
GridPut(store, oid, f) ==
  [o \in DOMAIN store \cup {oid} |->
     IF o = oid THEN [data |-> f.data, filename |-> f.filename, contentType |-> f.content_type]
     ELSE store[o]]

UploadStep(opname, prefix) ==
  /\ pc = opname
  /\ \/ \E oid \in OidPool \ DOMAIN fs :
          /\ fs' = GridPut(fs, oid, req.file)
          /\ log' = Append(log, Returned("put", "fs", req.file, oid))
          /\ resp' = Respond(200, [id |-> ObjectIdStr(oid), filename |-> req.file.filename])
          /\ issued' = Assign(issued, ObjectIdStr(oid), req.file.data)
          /\ pc' = "done"
          /\ UNCHANGED tmpdir
     \/ \E m \in Msgs :
          /\ log' = Append(log, Raised("put", "fs", req.file, m))
          /\ Raise(prefix, m)
          /\ UNCHANGED <<fs, issued>>
  /\ UNCHANGED <<env, proc, BEARER_TOKEN, mongo_client, hf_clients, req, loc>>

upload_image == UploadStep("upload", "Upload failed: ")
upload_reference_image == UploadStep("reference", "Reference upload failed: ")

health ==
  /\ pc = "health"
  /\ resp' = Respond(200, [status |-> "ok"])
  /\ pc' = "done"
  /\ UNCHANGED <<env, proc, BEARER_TOKEN, mongo_client, hf_clients, fs, tmpdir, req, loc, log, issued>>

Frame == UNCHANGED <<env, proc, BEARER_TOKEN, mongo_client, hf_clients, req, issued>>

\* <local> = fs.get(ObjectId(<id>)).read()
GetStep(at, idstr, local, nextpc, prefix) ==
  /\ pc = at
  /\ IF ~ObjectIdValid(idstr)
     THEN /\ Raise(prefix, "InvalidId")
          /\ UNCHANGED <<loc, log>>
     ELSE LET oid == ObjectIdParse(idstr) IN
          \/ /\ oid \in DOMAIN fs
             /\ log' = Append(log, Returned("get", "fs", oid, fs[oid].data))
             /\ loc' = Assign(loc, local, fs[oid].data)
             /\ pc' = nextpc
             /\ UNCHANGED <<tmpdir, resp>>
          \/ /\ oid \notin DOMAIN fs
             /\ log' = Append(log, Raised("get", "fs", oid, "NoFile"))
             /\ Raise(prefix, "NoFile")
             /\ UNCHANGED loc
          \/ \E m \in Msgs :
               /\ log' = Append(log, Raised("get", "fs", oid, m))
               /\ Raise(prefix, m)
               /\ UNCHANGED loc
  /\ UNCHANGED fs
  /\ Frame

\* with tempfile.NamedTemporaryFile(suffix=".jpg", dir="/tmp") as <local>
OpenTmpStep(at, local, nextpc, prefix) ==
  /\ pc = at
  /\ \/ \E n \in TmpNames \ DOMAIN tmpdir :
          /\ tmpdir' = Assign(tmpdir, n, <<>>)
          /\ log' = Append(log, Returned("tmpfile", local, <<>>, n))
          /\ loc' = Assign(loc, local, n)
          /\ pc' = nextpc
          /\ UNCHANGED resp
     \/ \E m \in Msgs :
          /\ log' = Append(log, Raised("tmpfile", local, <<>>, m))
          /\ Raise(prefix, m)
          /\ UNCHANGED loc
  /\ UNCHANGED fs
  /\ Frame

\* variant: the write without the flush, the bytes stay in the buffer
WriteStepNoFlush(at, tmp, bytes, nextpc, prefix) ==
  /\ pc = at
  /\ \/ /\ tmpdir' = tmpdir
        /\ log' = Append(log, Returned("write", tmp, loc[bytes], Len(loc[bytes])))
        /\ pc' = nextpc
        /\ UNCHANGED resp
     \/ \E m \in Msgs :
          /\ log' = Append(log, Raised("write", tmp, loc[bytes], m))
          /\ Raise(prefix, m)
  /\ UNCHANGED <<fs, loc>>
  /\ Frame

\* <tmp>.write(<bytes>); <tmp>.flush()
WriteStep(at, tmp, bytes, nextpc, prefix) ==
  /\ pc = at
  /\ \/ /\ tmpdir' = [tmpdir EXCEPT ![loc[tmp]] = loc[bytes]]
        /\ log' = Append(log, Returned("write", tmp, loc[bytes], Len(loc[bytes])))
        /\ pc' = nextpc
        /\ UNCHANGED resp
     \/ \E m \in Msgs :
          /\ log' = Append(log, Raised("write", tmp, loc[bytes], m))
          /\ Raise(prefix, m)
  /\ UNCHANGED <<fs, loc>>
  /\ Frame

\* <local> = <client>.predict(img=handle_file(<tmp>.name), ..., api_name=<api>)
PredictImgStep(at, client, api, tmp, results, local, nextpc, prefix) ==
  /\ pc = at
  /\ LET args == [img |-> tmpdir[loc[tmp]]] IN
     \/ \E r \in results :
          /\ log' = Append(log, Returned("predict", <<client, api>>, args, r))
          /\ loc' = Assign(loc, local, r)
          /\ pc' = nextpc
          /\ UNCHANGED <<tmpdir, resp>>
     \/ \E m \in Msgs :
          /\ log' = Append(log, Raised("predict", <<client, api>>, args, m))
          /\ Raise(prefix, m)
          /\ UNCHANGED loc
  /\ UNCHANGED fs
  /\ Frame

\* ------------------------------------------------------ /analyze/{image_id}
PredictionFailed == "Prediction failed: "

analyze_get == GetStep("analyze", req.image_id, "img_bytes", "analyze_open", PredictionFailed)
analyze_open_tmp == OpenTmpStep("analyze_open", "tmp", "analyze_write", PredictionFailed)
analyze_write == WriteStep("analyze_write", "tmp", "img_bytes", "analyze_predict", PredictionFailed)
analyze_predict ==
  PredictImgStep("analyze_predict", HF_ANALYZE_SPACE, "/predict", "tmp", AnalyzeResults,
                 "analyze_result", "analyze_haircut", PredictionFailed)
analyze_haircut ==
  PredictImgStep("analyze_haircut", HF_HAIRCUT_SPACE, "/predict", "tmp", HaircutResults,
                 "haircut_result", "analyze_respond", PredictionFailed)

\* leaving the with-block, then building the JSONResponse
analyze_respond ==
  /\ pc = "analyze_respond"
  /\ IF Len(loc["analyze_result"]) < 3
     THEN Raise(PredictionFailed, "IndexError")
     ELSE /\ tmpdir' = CloseTmps(tmpdir, OpenTmps)
          /\ resp' = Respond(200, [hair_type |-> loc["analyze_result"][1],
                                   face_shape |-> loc["analyze_result"][2],
                                   gender |-> loc["analyze_result"][3],
                                   haircut |-> loc["haircut_result"]])
          /\ pc' = "done"
  /\ UNCHANGED <<fs, loc, log>>
  /\ Frame

\* ------------------------------------------------ /swap/{source_id}/{ref_id}
HairSwapFailed == "Hair swap failed: "

swap_get_src == GetStep("swap", req.source_id, "src_bytes", "swap_get_ref", HairSwapFailed)
swap_get_ref == GetStep("swap_get_ref", req.ref_id, "ref_bytes", "swap_open_src", HairSwapFailed)
swap_open_src_tmp == OpenTmpStep("swap_open_src", "src_tmp", "swap_open_ref", HairSwapFailed)
swap_open_ref_tmp == OpenTmpStep("swap_open_ref", "ref_tmp", "swap_write_src", HairSwapFailed)
swap_write_src == WriteStep("swap_write_src", "src_tmp", "src_bytes", "swap_write_ref", HairSwapFailed)
swap_write_ref == WriteStep("swap_write_ref", "ref_tmp", "ref_bytes", "swap_pre_src", HairSwapFailed)
swap_pre_src ==
  PredictImgStep("swap_pre_src", HF_HAIR_SWAP_SPACE, "/resize_inner", "src_tmp", PreResults,
                 "src_preprocessed", "swap_pre_ref", HairSwapFailed)
swap_pre_ref ==
  PredictImgStep("swap_pre_ref", HF_HAIR_SWAP_SPACE, "/resize_inner_1", "ref_tmp", PreResults,
                 "ref_preprocessed", "swap_hair", HairSwapFailed)

\* variant: the shape taken from the source instead of the reference
SwapArgsShapeFromSource(src_preprocessed, ref_preprocessed) ==
  [face |-> ValueOf(src_preprocessed),
   shape |-> ValueOf(src_preprocessed),
   color |-> ValueOf(ref_preprocessed)]

\* the keyword arguments of the /swap_hair call
SwapArgs(src_preprocessed, ref_preprocessed) ==
  [face |-> ValueOf(src_preprocessed),
   shape |-> ValueOf(ref_preprocessed),
   color |-> ValueOf(ref_preprocessed)]

swap_hair ==
  /\ pc = "swap_hair"
  /\ IF ~HasValue(loc["src_preprocessed"]) \/ ~HasValue(loc["ref_preprocessed"])
     THEN /\ Raise(HairSwapFailed, "KeyError")
          /\ UNCHANGED <<loc, log>>
     ELSE \/ \E m \in Msgs :
               \* handle_file raises when the path is neither a file nor a URL
               /\ Raise(HairSwapFailed, m)
               /\ UNCHANGED <<loc, log>>
          \/ LET api == <<HF_HAIR_SWAP_SPACE, "/swap_hair">>
                 args == SwapArgs(loc["src_preprocessed"], loc["ref_preprocessed"]) IN
             \/ \E r \in SwapResults :
                  /\ log' = Append(log, Returned("predict", api, args, r))
                  /\ loc' = Assign(loc, "swap_result", r)
                  /\ pc' = "swap_readback"
                  /\ UNCHANGED <<tmpdir, resp>>
             \/ \E m \in Msgs :
                  /\ log' = Append(log, Raised("predict", api, args, m))
                  /\ Raise(HairSwapFailed, m)
                  /\ UNCHANGED loc
  /\ UNCHANGED fs
  /\ Frame

\* swap_file_path = ...; with open(swap_file_path, "rb") as f: b64encode(f.read())
swap_readback ==
  /\ pc = "swap_readback"
  /\ IF Len(loc["swap_result"]) < 1
     THEN /\ Raise(HairSwapFailed, "IndexError")
          /\ UNCHANGED <<loc, log>>
     ELSE IF ~HasValue(loc["swap_result"][1])
     THEN /\ Raise(HairSwapFailed, "KeyError")
          /\ UNCHANGED <<loc, log>>
     ELSE LET swap_file_path == ValueOf(loc["swap_result"][1]) IN
          \/ \E content \in ResultBytes :
               /\ log' = Append(log, Returned("open", "file", swap_file_path, content))
               /\ loc' = Assign(Assign(loc, "swap_file_path", swap_file_path),
                                "swap_base64", b64encode(content))
               /\ pc' = "swap_respond"
               /\ UNCHANGED <<tmpdir, resp>>
          \/ \E m \in Msgs :
               /\ log' = Append(log, Raised("open", "file", swap_file_path, m))
               /\ Raise(HairSwapFailed, m)
               /\ UNCHANGED loc
  /\ UNCHANGED fs
  /\ Frame

\* leaving the with-block, then building the JSONResponse
swap_respond ==
  /\ pc = "swap_respond"
  /\ IF Len(loc["swap_result"]) < 2
     THEN Raise(HairSwapFailed, "IndexError")
     ELSE /\ tmpdir' = CloseTmps(tmpdir, OpenTmps)
          /\ resp' = Respond(200, [result_image_base64 |-> loc["swap_base64"],
                                   message |-> loc["swap_result"][2]])
          /\ pc' = "done"
  /\ UNCHANGED <<fs, loc, log>>
  /\ Frame

Next ==
  \/ load_config \/ setup_clients
  \/ recv_upload \/ recv_reference \/ recv_analyze \/ recv_swap \/ recv_health
  \/ security_missing \/ check_auth
  \/ upload_image \/ upload_reference_image
  \/ analyze_get \/ analyze_open_tmp \/ analyze_write
  \/ analyze_predict \/ analyze_haircut \/ analyze_respond
  \/ swap_get_src \/ swap_get_ref \/ swap_open_src_tmp \/ swap_open_ref_tmp
  \/ swap_write_src \/ swap_write_ref \/ swap_pre_src \/ swap_pre_ref
  \/ swap_hair \/ swap_readback \/ swap_respond
  \/ health \/ send_response

Spec == Init /\ [][Next]_vars

\* ===================================================================
\* Properties
\* ===================================================================
GatedOps == {"upload", "reference", "analyze", "swap"}
\* the presented credential equals the configured secret
CredentialOK(r) == r.cred.present /\ r.cred.credentials = env.API_KEY.val
LastOf(l) == l[Len(l)]
IsCall(e, api) == e.kind = "predict" /\ e.api[2] = api
FirstId(r) == IF r.op = "analyze" THEN r.image_id ELSE r.source_id
ErrorResponse(status, prefix, msg) == [status |-> status, body |-> [detail |-> <<prefix, msg>>]]
Unwrapped(r) == IF r.isdict THEN r.dict.value ELSE r.str
Empty(f) == DOMAIN f = {}

B64Index(c) == (CHOOSE n \in 1..64 : B64Alphabet[n] = c) - 1
RECURSIVE B64Decode(_)
B64Decode(t) ==
  IF Len(t) = 0 THEN <<>>
  ELSE LET a == B64Index(t[1])
           b == B64Index(t[2])
           rest == B64Decode(SubSeq(t, 5, Len(t)))
       IN IF t[3] = "=" THEN <<a * 4 + b \div 16>>
          ELSE LET c == B64Index(t[3]) IN
               IF t[4] = "=" THEN <<a * 4 + b \div 16, (b % 16) * 16 + c \div 4>>
               ELSE <<a * 4 + b \div 16, (b % 16) * 16 + c \div 4,
                      (c % 4) * 64 + B64Index(t[4])>> \o rest

\* C1: a request to upload, reference-image, analyze or swap whose credential
\* is not the configured secret ends with an unauthorized response in its
\* first step, and no step taken for it touches the blob store, the temp
\* directory or a remote service.
C1_AuthGate ==
  [][(req.op \in GatedOps /\ ~CredentialOK(req)) =>
       /\ fs' = fs /\ tmpdir' = tmpdir /\ issued' = issued
       /\ log = <<>> /\ log' = <<>>
       /\ pc \in {"auth", "done"}
       /\ pc = "auth" => /\ pc' = "done"
                         /\ Len(resp') = 1
                         /\ resp'[1].status \in {401, 403}
                         /\ "detail" \in DOMAIN resp'[1].body]_vars
C1_Witness ==
  /\ pc = "done" /\ req.op = "upload" /\ req.cred = Bearer("K1")
  /\ resp[1].status = 403 /\ Empty(fs)

\* C2: an authorized analyze or swap request with a malformed identifier is
\* answered 400.
MalformedRequest ==
  \/ ~ObjectIdValid(FirstId(req))
  \/ /\ req.op = "swap" /\ ~ObjectIdValid(req.ref_id)
     /\ Len(log) >= 1 /\ log[1].ok
C2_MalformedIdIs400 ==
  (pc = "done" /\ req.op \in {"analyze", "swap"} /\ CredentialOK(req) /\ MalformedRequest)
    => (Len(resp) = 1 /\ resp[1].status = 400)

IdOfCall(e) ==
  IF e.api[2] = "/predict" THEN req.image_id
  ELSE IF e.api[2] = "/resize_inner" THEN req.source_id ELSE req.ref_id
C4_RoundTrip ==
  req.op \in {"analyze", "swap"} =>
    /\ (Len(log) >= 1 /\ log[1].kind = "get" /\ FirstId(req) \in DOMAIN issued
        /\ log[1].msg \notin Msgs)
         => (log[1].ok /\ log[1].result = issued[FirstId(req)])
    /\ (req.op = "swap" /\ Len(log) >= 2 /\ log[2].kind = "get"
        /\ req.ref_id \in DOMAIN issued /\ log[2].msg \notin Msgs)
         => (log[2].ok /\ log[2].result = issued[req.ref_id])
    /\ \A i \in 1..Len(log) :
         (log[i].kind = "predict" /\ "img" \in DOMAIN log[i].args
          /\ IdOfCall(log[i]) \in DOMAIN issued)
           => log[i].args.img = issued[IdOfCall(log[i])]
C4_Witness ==
  /\ pc = "swap_hair" /\ req.source_id \in DOMAIN issued /\ req.ref_id \in DOMAIN issued
  /\ issued[req.source_id] = <<1, 2, 3>> /\ issued[req.ref_id] = <<255>>
  /\ log[7].args.img = <<1, 2, 3>> /\ log[8].args.img = <<255>>

\* C5: a step never changes or removes a stored blob; the store changes only
\* in an upload or reference-image request, by exactly one new blob; analyze,
\* swap and health steps leave it unchanged.
C5_BlobsImmutable ==
  [][/\ \A o \in DOMAIN fs : o \in DOMAIN fs' /\ fs'[o] = fs[o]
     /\ fs' # fs => /\ req.op \in {"upload", "reference"}
                    /\ Cardinality(DOMAIN fs') = Cardinality(DOMAIN fs) + 1
     /\ req.op \in {"analyze", "swap", "health"} => fs' = fs]_vars
C5_Witness ==
  /\ pc = "done" /\ req.op = "swap" /\ Cardinality(DOMAIN fs) = MaxBlobs
  /\ log # <<>> /\ IsCall(LastOf(log), "/swap_hair") /\ ~LastOf(log).ok
  /\ resp[1].status = 500

\* C6: a health request, whatever credential it carries, is answered with
\* status ok in its first step without an auth check, and touches neither the
\* blob store nor the temp directory nor a remote service.
C6_Health ==
  [][req.op = "health" =>
       /\ fs' = fs /\ tmpdir' = tmpdir /\ log' = <<>>
       /\ pc \in {"health", "done"}
       /\ pc = "health" => /\ pc' = "done"
                           /\ resp' = <<[status |-> 200, body |-> [status |-> "ok"]]>>]_vars
C6_Witness ==
  /\ pc = "done" /\ req.op = "health" /\ ~req.cred.present
  /\ resp[1].status = 200 /\ ~Empty(fs)

\* C7: with the database URL or the secret absent or empty the process never
\* gets past loading: no client is created and no request is received; a
\* serving process has both values set.
C7_StartupGuard ==
  /\ (~env.MONGODB_URL.set \/ env.MONGODB_URL.val = "" \/ ~env.API_KEY.set \/ env.API_KEY.val = "")
       => /\ proc \in {"loading", "refused"}
          /\ ~mongo_client /\ hf_clients = {}
          /\ pc = "idle" /\ req = NoReq /\ resp = <<>> /\ Empty(fs)
  /\ proc = "serving" => /\ env.MONGODB_URL.set /\ env.MONGODB_URL.val # ""
                         /\ env.API_KEY.set /\ env.API_KEY.val # ""
C7_Witness ==
  /\ proc = "refused" /\ env.MONGODB_URL = EnvVal("mongodb://db") /\ env.API_KEY = EnvVal("")

\* C8: in analyze and swap, an operation that failed is the last one of the
\* request, no remote operation is called twice, and after a failed remote
\* call or read-back the request is over with the single response 500 whose
\* detail is the handler's prefix followed by the failure's message.
PrefixOf(r) == IF r.op = "analyze" THEN "Prediction failed: " ELSE "Hair swap failed: "
C8_RemoteFailureAborts ==
  req.op \in {"analyze", "swap"} =>
    /\ \A i \in 1..(Len(log) - 1) : log[i].ok
    /\ \A i, j \in 1..Len(log) :
         (i < j /\ log[i].kind = "predict" /\ log[j].kind = "predict")
           => log[i].api # log[j].api
    /\ (log # <<>> /\ ~LastOf(log).ok /\ LastOf(log).kind \in {"predict", "open"})
         => /\ pc = "done"
            /\ resp = <<ErrorResponse(500, PrefixOf(req), LastOf(log).msg)>>
C8_Witness ==
  /\ pc = "done" /\ req.op = "analyze" /\ Len(log) = 4
  /\ IsCall(log[4], "/predict") /\ log[4].api[1] = HF_ANALYZE_SPACE
  /\ log[4].msg = "e2" /\ resp[1].status = 500

\* C9: when a request is over, none of the temp files it created exists.
C9_TempFilesRemoved ==
  pc \in {"done", "idle"} =>
    /\ Empty(tmpdir)
    /\ \A i \in 1..Len(log) :
         (log[i].kind = "tmpfile" /\ log[i].ok) => log[i].result \notin DOMAIN tmpdir
C9_Witness ==
  /\ pc = "done" /\ req.op = "swap" /\ Len(log) = 6
  /\ log[3].kind = "tmpfile" /\ log[3].ok /\ log[4].kind = "tmpfile" /\ log[4].ok
  /\ log[6].kind = "write" /\ log[6].api = "ref_tmp" /\ ~log[6].ok

\* C10: in swap, the /swap_hair call comes after two successful gets and the
\* two successful preprocessing calls, its face is the unwrapped source
\* output and its shape and color the unwrapped reference output; a 200
\* response comes only after /swap_hair returned and its file was read, and
\* carries the base64 text of the bytes read.
C10_SwapPipeline ==
  req.op = "swap" =>
    /\ \A i \in 1..Len(log) :
         IsCall(log[i], "/swap_hair") =>
           /\ \E a, b \in 1..(i - 1) :
                /\ a < b
                /\ log[a].kind = "get" /\ log[a].ok
                /\ log[b].kind = "get" /\ log[b].ok
           /\ \E c, d \in 1..(i - 1) :
                /\ IsCall(log[c], "/resize_inner") /\ log[c].ok
                /\ IsCall(log[d], "/resize_inner_1") /\ log[d].ok
                /\ log[i].args = [face |-> Unwrapped(log[c].result),
                                  shape |-> Unwrapped(log[d].result),
                                  color |-> Unwrapped(log[d].result)]
    /\ (pc = "done" /\ resp[1].status = 200) =>
         \E i, j \in 1..Len(log) :
           /\ i < j /\ j = Len(log)
           /\ IsCall(log[i], "/swap_hair") /\ log[i].ok
           /\ log[j].kind = "open" /\ log[j].ok
           /\ log[j].args = Unwrapped(log[i].result[1])
           /\ B64Decode(resp[1].body.result_image_base64) = log[j].result
           /\ resp[1].body.message = log[i].result[2]
C10_Witness ==
  /\ pc = "done" /\ req.op = "swap" /\ resp[1].status = 200
  /\ \E c, d \in 1..Len(log) :
       /\ IsCall(log[c], "/resize_inner") /\ log[c].result = Wrapped("/gradio/a.png")
       /\ IsCall(log[d], "/resize_inner_1") /\ log[d].result = Raw("/gradio/b.png")
  /\ B64Decode(resp[1].body.result_image_base64) = <<77, 97, 110, 33>>
====
